---- MODULE Spec2Model ----
(***************************************************************************)
(* Model of rios/bin/testcoords.py: the coordinate test of RIOS.           *)
(*                                                                         *)
(* run() creates two ramp rasters, calls applier.apply three times with    *)
(* the callback getCoords, and compares the coordinates the callback       *)
(* recorded with hard-wired expected lists (checkCoords, checkCoordList).  *)
(*                                                                         *)
(* Numbers: every coordinate of the source is a float holding an integer   *)
(* value far below 2^53 (0.5 * PIX = 5.0), so float arithmetic and float   *)
(* equality on them are exact and are modelled by integer arithmetic and   *)
(* integer equality.                                                       *)
(*                                                                         *)
(* Python values: the value bound to run()'s local `ok` and the value      *)
(* run() returns are modelled as the strings "True", "False", "None"       *)
(* ("unset" before the first assignment).                                  *)
(***************************************************************************)
EXTENDS Integers, Sequences, FiniteSets, TLC

\* ------------------------------------------------------------------------
\* Bounds of the model
\* ------------------------------------------------------------------------
\* most blocks the engine hands to the callback in one apply call
MaxBlocks == 10
\* most blocks of one apply call whose reported coordinates deviate
MaxFaulty == 1
\* longest list given to checkCoordList in SpecList
MaxLen == 3

\* ------------------------------------------------------------------------
\* Module-level constants (testcoords.py lines 31-56)
\* ------------------------------------------------------------------------
\* values of riostestutils / applier read at lines 35-38
DEFAULT_XLEFT == 500000
DEFAULT_YTOP == 7000000
DEFAULT_PIXSIZE == 10
DEFAULTWINDOWXSIZE == 200

TESTNAME == "TESTCOORDS"
XSTART == DEFAULT_XLEFT
YSTART == DEFAULT_YTOP
PIX == DEFAULT_PIXSIZE
STEP == PIX * DEFAULTWINDOWXSIZE
\* 0.5 * PIX
HALFPIX == PIX \div 2
OLAP == 2
MARGIN == OLAP * PIX
OFFSET_2ND_IMAGE == 100 * PIX

\* `for j in range(cols)` of one list comprehension, appending to acc
RECURSIVE ComprehensionInner(_, _, _, _, _)
ComprehensionInner(x0, y, j, cols, acc) ==
    IF j >= cols THEN acc
    ELSE ComprehensionInner(x0, y, j + 1, cols, Append(acc, <<x0 + j * STEP, y>>))

\* `for i in range(rows) for j in range(cols)`: i is the outer loop
RECURSIVE ComprehensionOuter(_, _, _, _, _, _)
ComprehensionOuter(x0, y0, i, rows, cols, acc) ==
    IF i >= rows THEN acc
    ELSE ComprehensionOuter(x0, y0, i + 1, rows, cols,
                            ComprehensionInner(x0, y0 - i * STEP, 0, cols, acc))

\* [(x0 + j * STEP, y0 - i * STEP) for i in range(rows) for j in range(cols)]
Comprehension(x0, y0, rows, cols) == ComprehensionOuter(x0, y0, 0, rows, cols, <<>>)

Mut_CORNERS_1FILE_NOOVERLAP == Comprehension(XSTART, YSTART - STEP, 3, 3)
CORNERS_1FILE_NOOVERLAP == Comprehension(XSTART, YSTART, 3, 3)

CENTRES_1FILE_NOOVERLAP == Comprehension(XSTART + HALFPIX, YSTART - HALFPIX, 3, 3)

Mut_CORNERS_1FILE_OVERLAP2 == Comprehension(XSTART - MARGIN, YSTART - MARGIN, 3, 3)
CORNERS_1FILE_OVERLAP2 == Comprehension(XSTART - MARGIN, YSTART + MARGIN, 3, 3)

CENTRES_1FILE_OVERLAP2 ==
    Comprehension(XSTART + HALFPIX - MARGIN, YSTART - HALFPIX + MARGIN, 3, 3)

Mut_CORNERS_2FILE_OVERLAP2 ==
    Comprehension(XSTART - MARGIN, YSTART + MARGIN, 2, 2)
CORNERS_2FILE_OVERLAP2 ==
    Comprehension(XSTART + OFFSET_2ND_IMAGE - MARGIN,
                  YSTART - OFFSET_2ND_IMAGE + MARGIN, 2, 2)

CENTRES_2FILE_OVERLAP2 ==
    Comprehension(XSTART + OFFSET_2ND_IMAGE + HALFPIX - MARGIN,
                  YSTART - OFFSET_2ND_IMAGE - HALFPIX + MARGIN, 2, 2)

\* ------------------------------------------------------------------------
\* State
\* ------------------------------------------------------------------------
VARIABLES
    pc,           \* position of run(): "start", "gen1", "gen2", "setup",
                  \* "apply", "inapply", "check", "cleanup", "done", "raised"
                  \* ("idle" in SpecList, where run() is not executing)
    scn,          \* which of the three scenarios run() is in (1..3)
    files,        \* raster files on disk: set of <<name, xLeft, yTop>>
    infiles,      \* infiles.img, as a sequence of file names
    overlap,      \* the overlap held by the shared controls object
    cornersList,  \* otherargs.cornersList
    centresList,  \* otherargs.centresList
    allOK,        \* run()'s local allOK
    ok,           \* run()'s local ok
    reports,      \* lines given to riostestutils.reportStart / report
    result,       \* what run() returned
    applyLog,     \* the <<infiles, overlap>> each apply call was given
    blocks,       \* the info objects the current apply call gave the callback
    grid,         \* the block grid the engine laid out for the current apply
    nfaulty,      \* blocks of the current apply call reported with a deviation
    matchHist,    \* per finished check: <<corners matched, centres matched>>
    cl_pc,        \* SpecList: position of the checkCoordList call
    cl_list1,     \* SpecList: argument list1
    cl_list2,     \* SpecList: argument list2
    cl_ret        \* SpecList: the value checkCoordList returned

vars == <<pc, scn, files, infiles, overlap, cornersList, centresList, allOK, ok,
          reports, result, applyLog, blocks, grid, nfaulty, matchHist,
          cl_pc, cl_list1, cl_list2, cl_ret>>

runVars == <<pc, scn, files, infiles, overlap, cornersList, centresList, allOK, ok,
             reports, result, applyLog, blocks, grid, nfaulty, matchHist>>

listVars == <<cl_pc, cl_list1, cl_list2, cl_ret>>

ramp1 == "ramp1.img"
ramp2 == "ramp2.img"

NoGrid == [x0 |-> 0, y0 |-> 0, ncols |-> 0]

\* ------------------------------------------------------------------------
\* checkCoordList (lines 142-154)
\* ------------------------------------------------------------------------
\* the loop `for i in range(len(list1))`, i counted from 1
RECURSIVE CheckLoop(_, _, _, _)
CheckLoop(list1, list2, i, okSoFar) ==
    IF i > Len(list1) THEN okSoFar
    ELSE CheckLoop(list1, list2, i + 1,
                   IF list1[i] # list2[i] THEN FALSE ELSE okSoFar)

\* a comparison that stops caring after the first element
Mut_checkCoordList(list1, list2) ==
    Len(list1) = Len(list2) /\ (Len(list1) > 0 => list1[1] = list2[1])

checkCoordList(list1, list2) ==
    LET ok0 == IF Len(list1) # Len(list2) THEN FALSE ELSE TRUE
    IN  IF ok0 THEN CheckLoop(list1, list2, 1, ok0) ELSE ok0

\* ------------------------------------------------------------------------
\* checkCoords (lines 126-139)
\* ------------------------------------------------------------------------
\* A line given to riostestutils.report is modelled by its test condition
\* string and the kind of mismatch it names.
CornerLine(testConditionStr) == <<testConditionStr, "Corner coordinates mis-match">>
CentreLine(testConditionStr) == <<testConditionStr, "Centre coordinates mis-match">>

\* a checkCoords that reports the corner line on a centre mismatch too
Mut_checkCoordsReports(testConditionStr, recCorners, recCentres, expCorners, expCentres) ==
    LET bad == ~checkCoordList(recCentres, expCentres)
    IN  (IF bad THEN <<CornerLine(testConditionStr)>> ELSE <<>>)
        \o (IF bad THEN <<CentreLine(testConditionStr)>> ELSE <<>>)

\* the lines checkCoords reports, in order
checkCoordsReports(testConditionStr, recCorners, recCentres, expCorners, expCentres) ==
    (IF ~checkCoordList(recCorners, expCorners)
        THEN <<CornerLine(testConditionStr)>> ELSE <<>>)
    \o (IF ~checkCoordList(recCentres, expCentres)
        THEN <<CentreLine(testConditionStr)>> ELSE <<>>)

\* the value checkCoords returns: the function has no return statement
checkCoordsReturn(testConditionStr, recCorners, recCentres, expCorners, expCentres) ==
    "None"

\* Python's `not v` for the values bound to ok
PyNot(v) == v \in {"False", "None"}

\* ------------------------------------------------------------------------
\* The three scenarios of run() (lines 82-105)
\* ------------------------------------------------------------------------
TestCondition(s) ==
    CASE s = 1 -> "1 file, overlap=0"
      [] s = 2 -> "1 file, overlap=2"
      [] OTHER -> "2 files, overlap=2"

ExpectedCorners(s) ==
    CASE s = 1 -> CORNERS_1FILE_NOOVERLAP
      [] s = 2 -> CORNERS_1FILE_OVERLAP2
      [] OTHER -> CORNERS_2FILE_OVERLAP2

ExpectedCentres(s) ==
    CASE s = 1 -> CENTRES_1FILE_NOOVERLAP
      [] s = 2 -> CENTRES_1FILE_OVERLAP2
      [] OTHER -> CENTRES_2FILE_OVERLAP2

\* the controls' overlap before any setOverlap call
DefaultOverlap == 0

\* infiles.img as run() leaves it before the apply call of scenario s
Mut_ScenarioInfiles(s, cur) == IF s = 1 THEN <<ramp1>> ELSE <<ramp1, ramp2>>
ScenarioInfiles(s, cur) ==
    CASE s = 1 -> <<ramp1>>
      [] s = 2 -> cur
      [] OTHER -> <<ramp1, ramp2>>

\* the controls' overlap as run() leaves it before the apply call of scenario s
ScenarioOverlap(s, cur) == IF s = 1 THEN cur ELSE OLAP

\* origin of the second raster (lines 72-73)
XLeft2 == DEFAULT_XLEFT + OFFSET_2ND_IMAGE
YTop2 == DEFAULT_YTOP - OFFSET_2ND_IMAGE

\* ------------------------------------------------------------------------
\* The block engine applier.apply, as run() and getCoords see it
\* ------------------------------------------------------------------------
Names(seq) == {seq[k] : k \in 1..Len(seq)}
SetMax(S) == CHOOSE m \in S : \A n \in S : n <= m
SetMin(S) == CHOOSE m \in S : \A n \in S : m <= n

\* top-left corner of the working grid over the given input files: of the
\* region all inputs cover ("intersection") or any input covers ("union")
FootprintTopLeft(fp, inf, onDisk) ==
    LET xs == {f[2] : f \in {g \in onDisk : g[1] \in Names(inf)}}
        ys == {f[3] : f \in {g \in onDisk : g[1] \in Names(inf)}}
    IN  IF fp = "intersection" THEN <<SetMax(xs), SetMin(ys)>>
                               ELSE <<SetMin(xs), SetMax(ys)>>

\* corner of the top-left pixel of block k (counted from 0) of a grid, the
\* block widened by the overlap margin
GridCorner(g, olap, k) ==
    <<g.x0 + (k % g.ncols) * STEP - olap * PIX,
      g.y0 - (k \div g.ncols) * STEP + olap * PIX>>

\* centre of that pixel
GridCentre(g, olap, k) ==
    <<GridCorner(g, olap, k)[1] + HALFPIX, GridCorner(g, olap, k)[2] - HALFPIX>>

\* the numbers of block columns the engine may lay out
ColumnChoices == 1..3

\* deviations of a reported coordinate: none, or one pixel to the right
Deviations == {0, PIX}

\* the info objects the engine may give the callback for block k
BlockInfos(g, olap, k, mayDeviate) ==
    {[pix    |-> <<GridCorner(g, olap, k)[1] + dc, GridCorner(g, olap, k)[2]>>,
      centre |-> <<GridCentre(g, olap, k)[1] + dz, GridCentre(g, olap, k)[2]>>,
      faulty |-> (dc # 0 \/ dz # 0)] :
        dc \in (IF mayDeviate THEN Deviations ELSE {0}),
        dz \in (IF mayDeviate THEN Deviations ELSE {0})}

\* ------------------------------------------------------------------------
\* getCoords (lines 114-123)
\* ------------------------------------------------------------------------
\* a callback that puts the new corner in front
Mut_getCoordsCorners(lst, info) == <<info.pix>> \o lst
\* otherargs.cornersList.append(info.getPixCoord(0, 0))
getCoordsCorners(lst, info) == Append(lst, info.pix)

\* otherargs.centresList.append((x[0,0], y[0,0])) of info.getBlockCoordArrays()
getCoordsCentres(lst, info) == Append(lst, info.centre)

getCoords(info) ==
    /\ cornersList' = getCoordsCorners(cornersList, info)
    /\ centresList' = getCoordsCentres(centresList, info)

\* ------------------------------------------------------------------------
\* run() (lines 59-111)
\* ------------------------------------------------------------------------
\* lines 63-68
RunStart ==
    /\ pc = "start"
    /\ allOK' = TRUE
    /\ reports' = Append(reports, <<TESTNAME, "start">>)
    /\ pc' = "gen1"
    /\ UNCHANGED <<scn, files, infiles, overlap, cornersList, centresList, ok,
                   result, applyLog, blocks, grid, nfaulty, matchHist>>
    /\ UNCHANGED listVars

\* line 69: riostestutils.genRampImageFile(ramp1)
GenRamp1 ==
    /\ pc = "gen1"
    /\ files' = files \cup {<<ramp1, DEFAULT_XLEFT, DEFAULT_YTOP>>}
    /\ pc' = "gen2"
    /\ UNCHANGED <<scn, infiles, overlap, cornersList, centresList, allOK, ok,
                   reports, result, applyLog, blocks, grid, nfaulty, matchHist>>
    /\ UNCHANGED listVars

\* lines 72-74: riostestutils.genRampImageFile(ramp2, xLeft=xLeft, yTop=yTop)
GenRamp2 ==
    /\ pc = "gen2"
    /\ files' = files \cup {<<ramp2, XLeft2, YTop2>>}
    /\ pc' = "setup"
    /\ UNCHANGED <<scn, infiles, overlap, cornersList, centresList, allOK, ok,
                   reports, result, applyLog, blocks, grid, nfaulty, matchHist>>
    /\ UNCHANGED listVars

\* a file creation raises: the file may or may not have been left on disk
GenRaise ==
    /\ pc \in {"gen1", "gen2"}
    /\ \E left \in BOOLEAN :
         files' = IF ~left THEN files
                  ELSE IF pc = "gen1"
                       THEN files \cup {<<ramp1, DEFAULT_XLEFT, DEFAULT_YTOP>>}
                       ELSE files \cup {<<ramp2, XLeft2, YTop2>>}
    /\ pc' = "raised"
    /\ UNCHANGED <<scn, infiles, overlap, cornersList, centresList, allOK, ok,
                   reports, result, applyLog, blocks, grid, nfaulty, matchHist>>
    /\ UNCHANGED listVars

\* the lists run() binds to otherargs before each apply call
FreshList == <<>>

\* lines 76-85, 91-93, 99-102: what run() sets before the apply call
Setup ==
    /\ pc = "setup"
    /\ infiles' = ScenarioInfiles(scn, infiles)
    /\ cornersList' = FreshList
    /\ centresList' = FreshList
    /\ overlap' = ScenarioOverlap(scn, overlap)
    /\ pc' = "apply"
    /\ UNCHANGED <<scn, files, allOK, ok, reports, result, applyLog, blocks,
                   grid, nfaulty, matchHist>>
    /\ UNCHANGED listVars

\* lines 86, 94, 103: applier.apply is entered; the engine lays out its grid
ApplyBegin ==
    /\ pc = "apply"
    /\ applyLog' = Append(applyLog, <<infiles, overlap>>)
    /\ \E fp \in {"intersection", "union"}, nc \in ColumnChoices :
         grid' = [x0 |-> FootprintTopLeft(fp, infiles, files)[1],
                  y0 |-> FootprintTopLeft(fp, infiles, files)[2],
                  ncols |-> nc]
    /\ blocks' = <<>>
    /\ nfaulty' = 0
    /\ pc' = "inapply"
    /\ UNCHANGED <<scn, files, infiles, overlap, cornersList, centresList, allOK,
                   ok, reports, result, matchHist>>
    /\ UNCHANGED listVars

\* the engine processes one more block and calls getCoords for it
Callback ==
    /\ pc = "inapply"
    /\ Len(blocks) < MaxBlocks
    /\ \E info \in BlockInfos(grid, overlap, Len(blocks), nfaulty < MaxFaulty) :
         /\ getCoords(info)
         /\ blocks' = Append(blocks, info)
         /\ nfaulty' = nfaulty + (IF info.faulty THEN 1 ELSE 0)
    /\ UNCHANGED <<pc, scn, files, infiles, overlap, allOK, ok, reports, result,
                   applyLog, grid, matchHist>>
    /\ UNCHANGED listVars

\* applier.apply returns
ApplyReturn ==
    /\ pc = "inapply"
    /\ pc' = "check"
    /\ UNCHANGED <<scn, files, infiles, overlap, cornersList, centresList, allOK,
                   ok, reports, result, applyLog, blocks, grid, nfaulty, matchHist>>
    /\ UNCHANGED listVars

\* applier.apply raises; run() has no handler
ApplyRaise ==
    /\ pc \in {"apply", "inapply"}
    /\ pc' = "raised"
    /\ UNCHANGED <<scn, files, infiles, overlap, cornersList, centresList, allOK,
                   ok, reports, result, applyLog, blocks, grid, nfaulty, matchHist>>
    /\ UNCHANGED listVars

\* lines 87-88, 95-96, 104-105: ok = checkCoords(...); if not ok: allOK = False
Check ==
    /\ pc = "check"
    /\ reports' = reports \o checkCoordsReports(TestCondition(scn), cornersList,
                      centresList, ExpectedCorners(scn), ExpectedCentres(scn))
    /\ ok' = checkCoordsReturn(TestCondition(scn), cornersList, centresList,
                               ExpectedCorners(scn), ExpectedCentres(scn))
    /\ allOK' = IF PyNot(ok') THEN FALSE ELSE allOK
    /\ matchHist' = Append(matchHist, <<cornersList = ExpectedCorners(scn),
                                        centresList = ExpectedCentres(scn)>>)
    /\ IF scn < 3 THEN pc' = "setup" /\ scn' = scn + 1
                  ELSE pc' = "cleanup" /\ scn' = scn
    /\ UNCHANGED <<files, infiles, overlap, cornersList, centresList, result,
                   applyLog, blocks, grid, nfaulty>>
    /\ UNCHANGED listVars

\* a cleanup that forgets the second file
Mut_RemoveFiles(onDisk) == {f \in onDisk : f[1] # ramp1}
\* lines 108-109: for filename in [ramp1, ramp2]: os.remove(filename)
RemoveFiles(onDisk) == {f \in onDisk : f[1] \notin {ramp1, ramp2}}

\* lines 107-111
CleanupReturn ==
    /\ pc = "cleanup"
    /\ files' = RemoveFiles(files)
    /\ result' = IF allOK THEN "True" ELSE "False"
    /\ pc' = "done"
    /\ UNCHANGED <<scn, infiles, overlap, cornersList, centresList, allOK, ok,
                   reports, applyLog, blocks, grid, nfaulty, matchHist>>
    /\ UNCHANGED listVars

InitRun ==
    /\ pc = "start"
    /\ scn = 1
    /\ files = {}
    /\ infiles = <<>>
    /\ overlap = DefaultOverlap
    /\ cornersList = <<>>
    /\ centresList = <<>>
    /\ allOK = TRUE
    /\ ok = "unset"
    /\ reports = <<>>
    /\ result = "unset"
    /\ applyLog = <<>>
    /\ blocks = <<>>
    /\ grid = NoGrid
    /\ nfaulty = 0
    /\ matchHist = <<>>

Init ==
    /\ InitRun
    /\ cl_pc = "idle"
    /\ cl_list1 = <<>>
    /\ cl_list2 = <<>>
    /\ cl_ret = FALSE

Next ==
    \/ RunStart
    \/ GenRamp1
    \/ GenRamp2
    \/ GenRaise
    \/ Setup
    \/ ApplyBegin
    \/ Callback
    \/ ApplyReturn
    \/ ApplyRaise
    \/ Check
    \/ CleanupReturn

Spec == Init /\ [][Next]_vars

\* ------------------------------------------------------------------------
\* checkCoordList on its own: every pair of short lists
\* ------------------------------------------------------------------------
\* the coordinates the lists are built from: they differ in x only, in y
\* only, or in both
Coords == {<<XSTART, YSTART>>, <<XSTART + STEP, YSTART>>, <<XSTART, YSTART - STEP>>}

RECURSIVE ListsUpTo(_)
ListsUpTo(n) ==
    IF n = 0 THEN {<<>>}
    ELSE ListsUpTo(n - 1)
         \cup {Append(l, c) : l \in {m \in ListsUpTo(n - 1) : Len(m) = n - 1}, c \in Coords}

InitList ==
    /\ pc = "idle"
    /\ scn = 1
    /\ files = {}
    /\ infiles = <<>>
    /\ overlap = DefaultOverlap
    /\ cornersList = <<>>
    /\ centresList = <<>>
    /\ allOK = TRUE
    /\ ok = "unset"
    /\ reports = <<>>
    /\ result = "unset"
    /\ applyLog = <<>>
    /\ blocks = <<>>
    /\ grid = NoGrid
    /\ nfaulty = 0
    /\ matchHist = <<>>
    /\ cl_pc = "call"
    /\ cl_list1 \in ListsUpTo(MaxLen)
    /\ cl_list2 \in ListsUpTo(MaxLen)
    /\ cl_ret = FALSE

\* one call checkCoordList(cl_list1, cl_list2)
CallCheckCoordList ==
    /\ cl_pc = "call"
    /\ cl_ret' = checkCoordList(cl_list1, cl_list2)
    /\ cl_pc' = "returned"
    /\ UNCHANGED <<cl_list1, cl_list2>>
    /\ UNCHANGED runVars

NextList == CallCheckCoordList

SpecList == InitList /\ [][NextList]_vars

\* ------------------------------------------------------------------------
\* Properties
\* ------------------------------------------------------------------------
Range(seq) == {seq[k] : k \in 1..Len(seq)}

\* scenario s was checked and checkCoords reported no line for it
Passed(s) ==
    /\ Len(matchHist) >= s
    /\ CornerLine(TestCondition(s)) \notin Range(reports)
    /\ CentreLine(TestCondition(s)) \notin Range(reports)

\* the recorded lists of scenario s are still in otherargs: its check has
\* run and the next scenario has not yet rebound the lists
JustChecked(s) ==
    /\ Len(matchHist) = s
    /\ pc \in {"setup", "cleanup", "done"}

AllMatched == \A s \in 1..3 : matchHist[s] = <<TRUE, TRUE>>

\* C1: run() returns True exactly when, in all three scenarios, the recorded
\* corner list and the recorded centre list both equal their expected lists,
\* and returns False otherwise.
C1_RunReturnsWhetherAllMatched ==
    pc = "done" => (result = "True" <=> AllMatched)

\* C2: checkCoordList(list1, list2) returns True if and only if the lists
\* have the same length and are equal at every index; any length difference
\* and any single differing element give False; neither list is modified.
C2_CheckCoordListExact ==
    /\ [](cl_pc = "returned" =>
            (cl_ret <=> /\ Len(cl_list1) = Len(cl_list2)
                        /\ \A i \in 1..Len(cl_list1) : cl_list1[i] = cl_list2[i]))
    /\ [][cl_list1' = cl_list1 /\ cl_list2' = cl_list2]_vars

\* the lists agree everywhere but at their last index
C2_Witness ==
    /\ cl_pc = "returned"
    /\ ~cl_ret
    /\ Len(cl_list1) = MaxLen
    /\ Len(cl_list2) = MaxLen
    /\ \A i \in 1..(MaxLen - 1) : cl_list1[i] = cl_list2[i]
    /\ cl_list1[MaxLen] # cl_list2[MaxLen]

\* C3: each checkCoords call reports the corner line if and only if the
\* recorded corner list differs from the expected one, the centre line if and
\* only if the recorded centre list differs from the expected one, and no
\* line when both match.
C3_ReportsExactlyMismatches ==
    [][pc = "check" =>
         reports' = reports
            \o (IF cornersList # ExpectedCorners(scn)
                   THEN <<CornerLine(TestCondition(scn))>> ELSE <<>>)
            \o (IF centresList # ExpectedCentres(scn)
                   THEN <<CentreLine(TestCondition(scn))>> ELSE <<>>)]_vars

\* only the corners of the first scenario were wrong, and only they were
\* reported
C3_Witness ==
    /\ JustChecked(1)
    /\ matchHist[1] = <<FALSE, TRUE>>
    /\ reports = <<<<TESTNAME, "start">>, CornerLine(TestCondition(1))>>

\* C4: the expected lists of the single-file, no-overlap scenario are the
\* 3x3 grid in row-major order: 9 entries each, entry 3*i+j of the corners
\* is (XSTART + j*STEP, YSTART - i*STEP) and of the centres that corner moved
\* by (+HALFPIX, -HALFPIX); the scenario passes only if the callback recorded
\* exactly these lists.
C4_NoOverlapGrid ==
    LET corner(i, j) == <<XSTART + j * STEP, YSTART - i * STEP>>
        centre(i, j) == <<corner(i, j)[1] + HALFPIX, corner(i, j)[2] - HALFPIX>>
    IN  /\ Len(CORNERS_1FILE_NOOVERLAP) = 9
        /\ Len(CENTRES_1FILE_NOOVERLAP) = 9
        /\ \A i \in 0..2, j \in 0..2 :
             /\ CORNERS_1FILE_NOOVERLAP[3 * i + j + 1] = corner(i, j)
             /\ CENTRES_1FILE_NOOVERLAP[3 * i + j + 1] = centre(i, j)
        /\ (JustChecked(1) /\ Passed(1)) =>
             /\ Len(cornersList) = 9
             /\ Len(centresList) = 9
             /\ \A i \in 0..2, j \in 0..2 :
                  /\ cornersList[3 * i + j + 1] = corner(i, j)
                  /\ centresList[3 * i + j + 1] = centre(i, j)

C4_Witness == JustChecked(1) /\ Passed(1) /\ Len(blocks) = 9

\* C5: the overlap=2 single-file expected lists have the same length (9) as
\* the no-overlap lists and every entry is the no-overlap entry moved by
\* (-MARGIN, +MARGIN), MARGIN = OLAP * PIX; the second scenario passes only
\* if the callback recorded the no-overlap grid moved so.
C5_OverlapShiftsByMargin ==
    LET moved(c) == <<c[1] - OLAP * PIX, c[2] + OLAP * PIX>>
    IN  /\ MARGIN = OLAP * PIX
        /\ Len(CORNERS_1FILE_OVERLAP2) = 9
        /\ Len(CENTRES_1FILE_OVERLAP2) = 9
        /\ Len(CORNERS_1FILE_NOOVERLAP) = 9
        /\ Len(CENTRES_1FILE_NOOVERLAP) = 9
        /\ \A k \in 1..9 :
             /\ CORNERS_1FILE_OVERLAP2[k] = moved(CORNERS_1FILE_NOOVERLAP[k])
             /\ CENTRES_1FILE_OVERLAP2[k] = moved(CENTRES_1FILE_NOOVERLAP[k])
        /\ (JustChecked(2) /\ Passed(2)) =>
             /\ Len(cornersList) = 9
             /\ Len(centresList) = 9
             /\ \A k \in 1..9 :
                  /\ cornersList[k] = moved(CORNERS_1FILE_NOOVERLAP[k])
                  /\ centresList[k] = moved(CENTRES_1FILE_NOOVERLAP[k])

C5_Witness == JustChecked(2) /\ Passed(2) /\ Len(blocks) = 9 /\ overlap = OLAP

\* the expected lists of the two-file scenario are a 2x2 grid in row-major
\* order that starts at the given top-left corner moved outward by one margin
\* and steps by STEP
TwoFileGridFrom(topLeft) ==
    LET corner(i, j) == <<topLeft[1] - MARGIN + j * STEP, topLeft[2] + MARGIN - i * STEP>>
        centre(i, j) == <<corner(i, j)[1] + HALFPIX, corner(i, j)[2] - HALFPIX>>
    IN  /\ Len(CORNERS_2FILE_OVERLAP2) = 4
        /\ Len(CENTRES_2FILE_OVERLAP2) = 4
        /\ \A i \in 0..1, j \in 0..1 :
             /\ CORNERS_2FILE_OVERLAP2[2 * i + j + 1] = corner(i, j)
             /\ CENTRES_2FILE_OVERLAP2[2 * i + j + 1] = centre(i, j)

\* C6, as claimed: in the two-file scenario the expected lists are a 2x2
\* row-major grid whose first corner is the top-left corner of the union of
\* the two raster extents moved outward by one margin, later blocks stepping
\* by STEP.
C6_ExpectedFromUnion ==
    (pc = "check" /\ scn = 3) =>
        TwoFileGridFrom(FootprintTopLeft("union", infiles, files))

\* C6, amended: in the two-file scenario the expected lists are a 2x2
\* row-major grid whose first corner is the top-left corner of the
\* intersection of the two raster extents (the second raster's origin) moved
\* outward by one margin, later blocks stepping by STEP; the scenario passes
\* only if the engine laid out 4 blocks in 2 columns from that corner.
C6_ExpectedFromIntersection ==
    /\ (pc = "check" /\ scn = 3) =>
          /\ infiles = <<ramp1, ramp2>>
          /\ FootprintTopLeft("intersection", infiles, files) = <<XLeft2, YTop2>>
          /\ TwoFileGridFrom(FootprintTopLeft("intersection", infiles, files))
    /\ (JustChecked(3) /\ Passed(3)) =>
          /\ Len(blocks) = 4
          /\ grid = [x0 |-> XLeft2, y0 |-> YTop2, ncols |-> 2]

C6_Witness == pc = "cleanup" /\ Passed(3) /\ Len(blocks) = 4

\* C7: both raster files exist before every apply call; when no call raises,
\* both are removed before run() returns, whether or not a check failed; when
\* a file creation or an apply call raises, run() ends there without a return
\* value and no file is removed.
C7_FilesRemovedOnSuccessOnly ==
    /\ [](pc \in {"apply", "inapply"} =>
            {f[1] : f \in files} = {ramp1, ramp2})
    /\ [](pc = "done" =>
            /\ {f[1] : f \in files} \cap {ramp1, ramp2} = {}
            /\ result \in {"True", "False"})
    /\ [](pc = "raised" => result = "unset")
    /\ [][/\ pc # "raised"
          /\ pc' = "raised" => files \subseteq files'
          /\ ~(files \subseteq files') => (pc = "cleanup" /\ pc' = "done")]_vars

\* the third apply call raised: both files are still on disk
C7_Witness ==
    /\ pc = "raised"
    /\ Len(applyLog) = 3
    /\ {f[1] : f \in files} = {ramp1, ramp2}

\* C8: each getCoords call appends exactly one pair to cornersList and one to
\* centresList, at the end, changing no earlier entry: after n calls in one
\* apply call both lists have length n and entry k holds what was reported for
\* the k-th block; the callback changes nothing else.
C8_CallbackAppendsOne ==
    /\ [](pc = "inapply" =>
            /\ Len(cornersList) = Len(blocks)
            /\ Len(centresList) = Len(blocks)
            /\ \A k \in 1..Len(blocks) :
                 /\ cornersList[k] = blocks[k].pix
                 /\ centresList[k] = blocks[k].centre)
    /\ [][(pc = "inapply" /\ pc' = "inapply") =>
            /\ Len(cornersList') = Len(cornersList) + 1
            /\ Len(centresList') = Len(centresList) + 1
            /\ SubSeq(cornersList', 1, Len(cornersList)) = cornersList
            /\ SubSeq(centresList', 1, Len(centresList)) = centresList
            /\ UNCHANGED <<scn, files, infiles, overlap, allOK, ok, reports,
                           result, applyLog>>]_vars

\* three blocks were processed and the second was reported with a deviation
C8_Witness ==
    /\ pc = "inapply"
    /\ Len(blocks) = 3
    /\ blocks[2].faulty
    /\ cornersList[1] # cornersList[3]

\* C9: the value checkCoords hands back to run() is true exactly when the
\* corner list and the centre list both match, so a scenario in which both
\* match is never counted by run() as a failure.
C9_CheckValueReflectsBoth ==
    Len(matchHist) >= 1 =>
        /\ ~PyNot(ok) <=> matchHist[Len(matchHist)] = <<TRUE, TRUE>>
        /\ ~allOK => \E s \in 1..Len(matchHist) : matchHist[s] # <<TRUE, TRUE>>

\* C10: immediately before each of the three apply calls both accumulator
\* lists are empty; the first apply runs with the default overlap and the
\* single file, the second with overlap OLAP and the single file, the third
\* with overlap OLAP and the pair of files; a failed check never prevents the
\* later scenarios from running.
C10_ScenariosInOrderWithoutLeak ==
    LET calls == << <<(<<ramp1>>), DefaultOverlap>>,
                    <<(<<ramp1>>), OLAP>>,
                    <<(<<ramp1, ramp2>>), OLAP>> >>
    IN  /\ pc = "apply" =>
             /\ cornersList = <<>>
             /\ centresList = <<>>
             /\ Len(matchHist) = scn - 1
             /\ Len(applyLog) = scn - 1
             /\ <<infiles, overlap>> = calls[scn]
        /\ Len(applyLog) <= 3
        /\ \A k \in 1..Len(applyLog) : applyLog[k] = calls[k]
        /\ pc = "done" => (Len(applyLog) = 3 /\ Len(matchHist) = 3)

\* the third apply is about to run although both earlier checks failed
C10_Witness ==
    /\ pc = "apply"
    /\ scn = 3
    /\ matchHist = << <<FALSE, FALSE>>, <<FALSE, FALSE>> >>
    /\ blocks # <<>>

====
